---- MODULE Spec2Model ----
(***************************************************************************)
(* Model of iron-drain (src/lib.rs): the Drain after-middleware, which     *)
(* reads the unread part of a request body up to a limit and sets          *)
(* "Connection: close" on the response when it cannot confirm that the     *)
(* body is exhausted.                                                      *)
(*                                                                         *)
(* One request is followed from the handler to the return of the hooks.    *)
(* Every read that drain issues on the body stream is one step, because    *)
(* the outcome of each read (a short read, an error) is chosen by the      *)
(* stream, not by drain.                                                   *)
(***************************************************************************)
EXTENDS Integers, Sequences, FiniteSets, TLC

\* ---------------------------------------------------------------- bounds
MaxLimit == 3      \* limits 0 .. MaxLimit are tried
MaxBody  == 5      \* body sizes 0 .. MaxBody are tried
BufSize  == 2      \* length of io::copy's internal buffer (scaled down)
MaxErrs  == 2      \* read errors the stream may return during one request
MaxCalls == 3      \* Drain middlewares linked after one handler

\* ------------------------------------------------------------- constants
ProbeBufLen2 == 1 + 1
\* let mut buf = [0];  -- the probe buffer holds one byte
ProbeBufLen == 1

Directives == {"absent", "keep-alive", "close"}
Statuses   == {"200", "500"}
Errors     == {"E1", "E2"}
ErrKinds   == {"Interrupted", "Other"}

Min(a, b) == IF a <= b THEN a ELSE b

\* ------------------------------------------------------ results of a read
Ok(n)  == [ok |-> TRUE,  n |-> n, kind |-> "none"]
Err(k) == [ok |-> FALSE, n |-> 0, kind |-> k]

\* req.body.read(buf) with rem bytes unread and a buffer of len >= 1 bytes:
\* at end-of-stream Ok(0); otherwise a read of 1 .. min(rem, len) bytes, or,
\* when the stream may still fail, an error of some kind.
ReadOutcomes(rem, len, mayFail) ==
    IF rem = 0
    THEN {Ok(0)}
    ELSE {Ok(n) : n \in 1 .. Min(rem, len)}
         \cup (IF mayFail THEN {Err(k) : k \in ErrKinds} ELSE {})

\* ------------------------------------------------------------ Drain type
\* Drain::with_limit
with_limit(limit) == [limit |-> limit]

\* Take::read asks the inner reader for at most min(buf.len(), limit) bytes
TakeMaxUnbounded(buflen, lim) == buflen
TakeMax(buflen, lim) == Min(buflen, lim)

\* io::copy continues its loop on ErrorKind::Interrupted and returns every
\* other error
CopyRetries(kind) == kind = "Interrupted"

\* if io::copy(..).is_ok() { probe } -- otherwise fall through to the close
AfterCopyIgnoreErr(res) == "probe"
AfterCopyAlwaysClose(res) == "close"
AfterCopy(res) == IF res = "Ok" THEN "probe" ELSE "close"

\* if let Ok(n) = req.body.read(&mut buf) { if n == 0 { return; } }
ProbeReturnsAnyOk(o) == o.ok
ProbeReturnsOnErr(o) == ~o.ok \/ o.n = 0
ProbeReturnsInverted(o) == o.ok /\ o.n # 0
ProbeReturns(o) == o.ok /\ o.n = 0

\* resp.headers.set(Connection::close())
SetCloseNoop(r) == r
SetKeepAlive(r) == [r EXCEPT !.connection = "keep-alive"]
SetClose(r) == [r EXCEPT !.connection = "close"]

\* after: Ok(resp)
AfterResult(r) == [tag |-> "Ok", error |-> "none", response |-> r]

\* catch: Err(err), err.response being the response drain was given
CatchRecovers(e, r) == [tag |-> "Ok", error |-> "none", response |-> r]
CatchResult(e, r) == [tag |-> "Err", error |-> e, response |-> r]

NoResult == [tag |-> "none", error |-> "none", response |-> [connection |-> "absent", status |-> "200"]]

\* ----------------------------------------------------------------- state
VARIABLES
    drainer,   \* the Drain value, [limit]
    size,      \* total size of the request body
    body,      \* bytes of the body not yet read from the stream
    resp,      \* the response (or err.response): [connection, status]
    pc,        \* "handler", "copy", "probe", "done"
    path,      \* hook that is running: "none", "after", "catch"
    errIn,     \* the error catch was given ("none" on the after path)
    take,      \* remaining limit of the Take adaptor inside io::copy
    copyRes,   \* result of io::copy: "none", "Ok", "Err"
    result,    \* what the hook returned
    log,       \* reads drain issued on the body stream in this invocation
    r0,        \* bytes unread when drain was entered
    resp0,     \* the response when drain was entered
    didSet,    \* drain executed resp.headers.set(Connection::close())
    drains,    \* times the running hook has entered drain
    calls,     \* hooks run for this request so far
    errs       \* read errors the stream has returned so far

vars == <<drainer, size, body, resp, pc, path, errIn, take, copyRes, result,
          log, r0, resp0, didSet, drains, calls, errs>>

Init ==
    /\ \E l \in 0 .. MaxLimit : drainer = with_limit(l)
    /\ size \in 0 .. MaxBody
    /\ body = size
    /\ \E c \in Directives, s \in Statuses : resp = [connection |-> c, status |-> s]
    /\ pc = "handler"
    /\ path = "none"
    /\ errIn = "none"
    /\ take = 0
    /\ copyRes = "none"
    /\ result = NoResult
    /\ log = <<>>
    /\ r0 = 0
    /\ resp0 = resp
    /\ didSet = FALSE
    /\ drains = 0
    /\ calls = 0
    /\ errs = 0

\* --------------------------------------------------------------- actions
\* The handler reads part of the body before the hooks run.
HandlerRead ==
    /\ pc = "handler"
    /\ body > 0
    /\ \E n \in 1 .. body : body' = body - n
    /\ UNCHANGED <<drainer, size, resp, pc, path, errIn, take, copyRes, result,
                   log, r0, resp0, didSet, drains, calls, errs>>

\* Entry of drain: io::copy(&mut req.body.by_ref().take(self.limit), ..)
EnterDrain ==
    /\ take' = drainer.limit
    /\ copyRes' = "none"
    /\ log' = <<>>
    /\ r0' = body
    /\ resp0' = resp
    /\ didSet' = FALSE
    /\ drains' = 1
    /\ result' = NoResult
    /\ pc' = "copy"
    /\ calls' = calls + 1
    /\ UNCHANGED <<drainer, size, body, resp, errs>>

\* AfterMiddleware::after is called with the handler's response, or with the
\* response an earlier linked Drain returned.
after ==
    /\ \/ pc = "handler"
       \/ pc = "done" /\ result.tag = "Ok" /\ calls < MaxCalls
    /\ path' = "after"
    /\ errIn' = "none"
    /\ EnterDrain

\* AfterMiddleware::catch is called with the handler's error, or with the
\* error an earlier linked Drain returned.
catch ==
    /\ \/ pc = "handler" /\ errIn' \in Errors
       \/ pc = "done" /\ result.tag = "Err" /\ calls < MaxCalls
          /\ errIn' = result.error
    /\ path' = "catch"
    /\ EnterDrain

\* Return of drain and of the hook that called it.
Return(r) ==
    /\ result' = IF path = "after" THEN AfterResult(r) ELSE CatchResult(errIn, r)
    /\ pc' = "done"

\* Fall-through of drain: set the header, then return.
CloseAndReturn ==
    /\ resp' = SetClose(resp)
    /\ didSet' = TRUE
    /\ Return(resp')

\* What follows io::copy returning res.
CopyDone(res) ==
    /\ copyRes' = res
    /\ IF AfterCopy(res) = "probe"
       THEN /\ pc' = "probe"
            /\ UNCHANGED <<resp, didSet, result>>
       ELSE CloseAndReturn

\* One iteration of io::copy's loop when Take's limit is used up: Take::read
\* returns Ok(0) without reading the body, and io::copy returns Ok.
CopyAtLimit ==
    /\ pc = "copy"
    /\ take = 0
    /\ CopyDone("Ok")
    /\ UNCHANGED <<drainer, size, body, path, errIn, take, log, r0, resp0,
                   drains, calls, errs>>

\* One iteration of io::copy's loop that reads the body through Take.
CopyRead ==
    /\ pc = "copy"
    /\ take # 0
    /\ \E o \in ReadOutcomes(body, TakeMax(BufSize, take), errs < MaxErrs) :
          /\ log' = Append(log, [phase |-> "copy", res |-> o])
          /\ body' = body - o.n
          /\ take' = take - o.n
          /\ errs' = IF o.ok THEN errs ELSE errs + 1
          /\ IF o.ok
             THEN IF o.n = 0
                  THEN CopyDone("Ok")
                  ELSE UNCHANGED <<pc, copyRes, resp, didSet, result>>
             ELSE IF CopyRetries(o.kind)
                  THEN UNCHANGED <<pc, copyRes, resp, didSet, result>>
                  ELSE CopyDone("Err")
    /\ UNCHANGED <<drainer, size, path, errIn, r0, resp0, drains, calls>>

\* The one-byte read after a successful copy.
Probe ==
    /\ pc = "probe"
    /\ \E o \in ReadOutcomes(body, ProbeBufLen, errs < MaxErrs) :
          /\ log' = Append(log, [phase |-> "probe", res |-> o])
          /\ body' = body - o.n
          /\ errs' = IF o.ok THEN errs ELSE errs + 1
          /\ IF ProbeReturns(o)
             THEN /\ UNCHANGED <<resp, didSet>>
                  /\ Return(resp)
             ELSE CloseAndReturn
    /\ UNCHANGED <<drainer, size, path, errIn, take, copyRes, r0, resp0,
                   drains, calls>>

Next ==
    \/ HandlerRead
    \/ after
    \/ catch
    \/ CopyAtLimit
    \/ CopyRead
    \/ Probe

Spec == Init /\ [][Next]_vars

\* ------------------------------------------------------------ properties
Done == pc = "done"

Limit == drainer.limit

\* bytes drain has taken from the body stream in this invocation
Consumed == r0 - body

RECURSIVE BytesIn(_, _)
\* bytes the reads of one phase returned, summed over a log
BytesIn(l, phase) ==
    IF l = <<>>
    THEN 0
    ELSE (IF l[1].phase = phase THEN l[1].res.n ELSE 0) + BytesIn(Tail(l), phase)

ErrReads == {i \in DOMAIN log : ~log[i].res.ok}

\* reads whose error ends the drain: any error of the probe, and any error
\* of the copy except ErrorKind::Interrupted
FatalReads == {i \in DOMAIN log : /\ ~log[i].res.ok
                                  /\ \/ log[i].phase = "probe"
                                     \/ log[i].res.kind # "Interrupted"}

ProbeReads == {i \in DOMAIN log : log[i].phase = "probe"}

\* a read on the body stream now yields end-of-stream and nothing else
AtEndOfStream == ReadOutcomes(body, ProbeBufLen, errs < MaxErrs) = {Ok(0)}

\* C1: whenever drain has returned without setting the connection header to
\* close, no unread byte of the body remains on the stream.
C1_ReuseSafety ==
    Done => /\ ~didSet => body = 0 /\ AtEndOfStream
            /\ result.response.connection # "close" => body = 0

C1_Witness ==
    /\ Done /\ ~didSet /\ resp.connection # "close"
    /\ r0 > 0 /\ body = 0

\* C2: a fully unread body of size s <= limit, read without error, leaves the
\* response unchanged and the stream at end-of-stream.
C2_SmallBodyKept ==
    (Done /\ r0 = size /\ size <= Limit /\ ErrReads = {})
        => /\ resp = resp0
           /\ ~didSet
           /\ result.response = resp0
           /\ AtEndOfStream

C2_Witness ==
    /\ Done /\ r0 = size /\ size = Limit /\ size > 0 /\ ErrReads = {}
    /\ resp.connection = "keep-alive"

\* C3: a body with more than limit unread bytes always ends with the
\* connection header set to close, also for limit = 0.
C3_LargeBodyClosed ==
    (Done /\ r0 > Limit)
        => /\ resp.connection = "close"
           /\ result.response.connection = "close"

C3_Witness ==
    /\ Done /\ r0 = Limit + 1 /\ resp0.connection # "close"
    /\ resp.connection = "close" /\ ErrReads = {}

\* C4 as stated: any read error during the copy or the probe ends with the
\* header set to close and no error raised by the hook.
C4_AnyErrorCloses ==
    (Done /\ ErrReads # {})
        => /\ resp.connection = "close"
           /\ path = "after" => result.tag = "Ok"

\* C4 amended: a read error that makes the bounded copy fail (any error except
\* ErrorKind::Interrupted, which io::copy retries) or any error of the probe
\* ends with the header set to close, and the hook raises no error of its own.
C4_FatalErrorCloses ==
    (Done /\ FatalReads # {})
        => /\ resp.connection = "close"
           /\ result.response.connection = "close"
           /\ path = "after" => result.tag = "Ok"
           /\ path = "catch" => result.error = errIn

C4_Witness ==
    /\ Done /\ FatalReads # {} /\ path = "after"
    /\ resp0.connection # "close" /\ resp.connection = "close"
    /\ result.tag = "Ok"

\* C5: one invocation of drain takes at most limit bytes through the bounded
\* copy and at most one through the probe, so never more than limit + 1.
C5_BoundedWork ==
    pc # "handler"
        => /\ BytesIn(log, "copy") <= Limit
           /\ BytesIn(log, "probe") <= 1
           /\ Consumed = BytesIn(log, "copy") + BytesIn(log, "probe")
           /\ Consumed <= Limit + 1

C5_Witness ==
    /\ Done /\ Limit > 0 /\ Consumed = Limit + 1 /\ body > 0

\* C6: after drain the connection header is its value before drain or close,
\* a header that was close is still close, and the rest of the response is
\* as it was.
C6_OnlyEverClose ==
    pc # "handler"
        => /\ resp.connection \in {resp0.connection, "close"}
           /\ resp0.connection = "close" => resp.connection = "close"
           /\ resp.status = resp0.status
           /\ Done => result.response = resp

C6_Witness ==
    /\ Done /\ resp0.connection = "close" /\ didSet
    /\ resp.connection = "close"

\* C7: drain on a body that is already at end-of-stream is a no-op: every read
\* returns end-of-stream, the response is unchanged and the stream stays at
\* end-of-stream, however often drain is called.
C7_ExhaustedNoOp ==
    (Done /\ r0 = 0)
        => /\ resp = resp0
           /\ ~didSet
           /\ body = 0
           /\ AtEndOfStream
           /\ \A i \in DOMAIN log : log[i].res = Ok(0)

C7_Witness ==
    /\ Done /\ r0 = 0 /\ calls >= 2 /\ size > 0 /\ ~didSet
    /\ ProbeReads # {}

\* C8: catch drains once and returns Err with the error it was given, whose
\* response has the header set to close when more than limit bytes were
\* unread; after drains once and returns Ok.
C8_ErrorPath ==
    Done => /\ drains = 1
            /\ path = "catch"
                 => /\ result.tag = "Err"
                    /\ result.error = errIn
                    /\ result.response.status = resp0.status
                    /\ r0 > Limit => result.response.connection = "close"
            /\ path = "after" => result.tag = "Ok"

C8_Witness ==
    /\ Done /\ path = "catch" /\ r0 > Limit
    /\ resp0.connection = "keep-alive"
    /\ result = [tag |-> "Err", error |-> "E2",
                 response |-> [resp0 EXCEPT !.connection = "close"]]

\* C9: without read errors drain sets close exactly when the number r of
\* unread bytes exceeds limit, and consumes exactly min(r, limit + 1) bytes,
\* whatever the body size, the handler's reads and the split into short reads.
C9_VerdictByUnread ==
    (Done /\ ErrReads = {})
        => /\ didSet <=> r0 > Limit
           /\ resp.connection = "close"
                <=> (r0 > Limit \/ resp0.connection = "close")
           /\ Consumed = Min(r0, Limit + 1)

C9_Witness ==
    /\ Done /\ ErrReads = {}
    /\ size > r0 /\ r0 > Limit + 1 /\ Limit >= 2
    /\ log[1].res.n = 1
    /\ Consumed = Limit + 1

\* C10 as stated: after any read error drain issues no further read; a failed
\* copy is followed by no probe; the probe is issued at most once, only after
\* the copy succeeded, and nothing is read after it.
C10_NoReadAfterAnyError ==
    /\ \A i \in ErrReads : i = Len(log) /\ Done
    /\ \A i \in ProbeReads : i = Len(log) /\ Done /\ copyRes = "Ok"
    /\ Cardinality(ProbeReads) <= 1
    /\ copyRes = "Err" => ProbeReads = {} /\ Done /\ didSet

\* C10 amended: after a read error that io::copy does not retry (any error but
\* ErrorKind::Interrupted during the copy, any error of the probe) drain issues
\* no further read; a failed copy is followed by no probe; the probe is issued
\* at most once, only after the copy succeeded, and nothing is read after it.
C10_SingleAttempt ==
    /\ \A i \in FatalReads : i = Len(log) /\ Done
    /\ \A i \in ProbeReads : i = Len(log) /\ Done /\ copyRes = "Ok"
    /\ Cardinality(ProbeReads) <= 1
    /\ copyRes = "Err" => ProbeReads = {} /\ Done /\ didSet

C10_Witness ==
    /\ Done /\ copyRes = "Err" /\ body > 0 /\ Len(log) >= 2
    /\ ProbeReads = {}

====
